---- MODULE Spec2Model ----
(***************************************************************************)
(* plotly/graph_reference.py: loading the graph reference (the plot        *)
(* schema), turning object names into class names, and building the        *)
(* OBJECTS and CLASS_NAMES_TO_OBJECT_NAMES registries.                     *)
(*                                                                         *)
(* A Python str is a sequence of one-character strings, a path (a tuple of *)
(* keys) is a sequence of such names, and a dict is a record               *)
(* [keys |-> the keys in insertion order, val |-> key :> value].           *)
(***************************************************************************)
EXTENDS Integers, Sequences, FiniteSets, TLC

VARIABLES
    \* string_to_class_name: the argument, the returned value, the position
    string, class_name, pcName,
    \* get_graph_reference: position, the environment it reads and its locals
    pc, permissions, cache_file,
    graph_reference, plotly_domain, graph_reference_url, response,
    get_count, raised, returned,
    \* the module-level names of lines 144-149 and the statement to run next
    GRAPH_REFERENCE, TRACE_NAMES, OBJECT_PATHS, OBJECTS,
    CLASS_NAMES_TO_OBJECT_NAMES, stmt

nameVars == <<string, class_name, pcName>>
loadVars == <<pc, permissions, cache_file,
              graph_reference, plotly_domain, graph_reference_url, response,
              get_count, raised, returned>>
moduleVars == <<GRAPH_REFERENCE, TRACE_NAMES, OBJECT_PATHS, OBJECTS,
                CLASS_NAMES_TO_OBJECT_NAMES, stmt>>
vars == <<nameVars, loadVars, moduleVars>>

----------------------------------------------------------------------------
(* Bounds *)

\* longest argument of string_to_class_name that is enumerated
MaxLen == 4
\* most nodes (dicts below the root) of an enumerated schema document
MaxNodes == 4
\* most nodes of a schema document held by the cache file or the server
MaxLoadNodes == 2

----------------------------------------------------------------------------
(* Characters and strings *)

Lower == <<"a", "b", "c", "d", "e", "f", "g", "h", "i", "j", "k", "l", "m",
           "n", "o", "p", "q", "r", "s", "t", "u", "v", "w", "x", "y", "z">>
Upper == <<"A", "B", "C", "D", "E", "F", "G", "H", "I", "J", "K", "L", "M",
           "N", "O", "P", "Q", "R", "S", "T", "U", "V", "W", "X", "Y", "Z">>

IsLower(c) == \E i \in 1..26 : Lower[i] = c
IsUpper(c) == \E i \in 1..26 : Upper[i] = c
\* the character class [A-Za-z]
IsAlpha(c) == IsLower(c) \/ IsUpper(c)

ToUpper(c) == IF IsLower(c) THEN Upper[CHOOSE i \in 1..26 : Lower[i] = c] ELSE c
ToLower(c) == IF IsUpper(c) THEN Lower[CHOOSE i \in 1..26 : Upper[i] = c] ELSE c

\* a mutant of Title: the first letter of a word is upper-cased and the
\* other letters are left as they are
TitleKeepRest(s) ==
    [i \in 1..Len(s) |->
        IF i > 1 /\ IsAlpha(s[i-1]) THEN s[i] ELSE ToUpper(s[i])]

\* str.title(): a letter that follows a letter is lower-cased, a letter that
\* follows anything else (or starts the string) is upper-cased
Title(s) ==
    [i \in 1..Len(s) |->
        IF i > 1 /\ IsAlpha(s[i-1]) THEN ToLower(s[i]) ELSE ToUpper(s[i])]

\* re.sub(r'[A-Za-z]', lambda m: m.group().title(), string, count=1)
SubFirstLetter(s) ==
    LET letters == {i \in 1..Len(s) : IsAlpha(s[i])}
    IN  IF letters = {} THEN s
        ELSE LET f == CHOOSE i \in letters : \A j \in letters : i <= j
             IN  SubSeq(s, 1, f-1) \o Title(<<s[f]>>) \o SubSeq(s, f+1, Len(s))

\* the last index of the run of letters that starts at i
RunEnd(s, i) ==
    CHOOSE j \in i..Len(s) :
        /\ \A k \in i..j : IsAlpha(s[k])
        /\ (j < Len(s) => ~IsAlpha(s[j+1]))

\* re.sub(r'_[A-Za-z]+', lambda m: m.group()[1:].title(), string), scanning
\* from index i: leftmost, greedy, non-overlapping matches
RECURSIVE SubUnderscoreRuns(_, _)
SubUnderscoreRuns(s, i) ==
    IF i > Len(s) THEN <<>>
    ELSE IF s[i] = "_" /\ i < Len(s) /\ IsAlpha(s[i+1])
         THEN LET j == RunEnd(s, i+1)
              IN  Title(SubSeq(s, i+1, j)) \o SubUnderscoreRuns(s, j+1)
         ELSE <<s[i]>> \o SubUnderscoreRuns(s, i+1)

\* a mutant of string_to_class_name: the whole string is title-cased before
\* the underscore runs are replaced
string_to_class_name_title(s) == SubUnderscoreRuns(Title(s), 1)

string_to_class_name(s) == SubUnderscoreRuns(SubFirstLetter(s), 1)

----------------------------------------------------------------------------
(* Names *)

n_traces == <<"t", "r", "a", "c", "e", "s">>
n_layout == <<"l", "a", "y", "o", "u", "t">>
n_figure == <<"f", "i", "g", "u", "r", "e">>
n_data == <<"d", "a", "t", "a">>
n_shapes == <<"s", "h", "a", "p", "e", "s">>
n_shape == <<"s", "h", "a", "p", "e">>
n_layouts == <<"l", "a", "y", "o", "u", "t", "s">>
n_font == <<"f", "o", "n", "t">>
n_error_y == <<"e", "r", "r", "o", "r", "_", "y">>
n_errorY == <<"e", "r", "r", "o", "r", "Y">>
n_scatter == <<"s", "c", "a", "t", "t", "e", "r">>
n_angularaxis == <<"a", "n", "g", "u", "l", "a", "r", "a", "x", "i", "s">>
n_colorbar == <<"c", "o", "l", "o", "r", "b", "a", "r">>
n_textfont == <<"t", "e", "x", "t", "f", "o", "n", "t">>
n_histogram2dcontour == <<"h", "i", "s", "t", "o", "g", "r", "a", "m", "2", "d", "c", "o", "n", "t", "o", "u", "r">>
n_radialaxis == <<"r", "a", "d", "i", "a", "l", "a", "x", "i", "s">>
n_xaxis == <<"x", "a", "x", "i", "s">>
n_xbins == <<"x", "b", "i", "n", "s">>
n_yaxis == <<"y", "a", "x", "i", "s">>
n_ybins == <<"y", "b", "i", "n", "s">>
n_zaxis == <<"z", "a", "x", "i", "s">>

c_AngularAxis == <<"A", "n", "g", "u", "l", "a", "r", "A", "x", "i", "s">>
c_ColorBar == <<"C", "o", "l", "o", "r", "B", "a", "r">>
c_Area == <<"A", "r", "e", "a">>
c_Font == <<"F", "o", "n", "t">>
c_Histogram2dContour == <<"H", "i", "s", "t", "o", "g", "r", "a", "m", "2", "d", "C", "o", "n", "t", "o", "u", "r">>
c_RadialAxis == <<"R", "a", "d", "i", "a", "l", "A", "x", "i", "s">>
c_XAxis == <<"X", "A", "x", "i", "s">>
c_XBins == <<"X", "B", "i", "n", "s">>
c_YAxis == <<"Y", "A", "x", "i", "s">>
c_YBins == <<"Y", "B", "i", "n", "s">>
c_ZAxis == <<"Z", "A", "x", "i", "s">>
c_Histogram2dcontour == <<"H", "i", "s", "t", "o", "g", "r", "a", "m", "2", "d", "c", "o", "n", "t", "o", "u", "r">>
c_Histogram2Dcontour == <<"H", "i", "s", "t", "o", "g", "r", "a", "m", "2", "D", "c", "o", "n", "t", "o", "u", "r">>
c_ErrorY == <<"E", "r", "r", "o", "r", "Y">>
c_Xbins == <<"X", "b", "i", "n", "s">>

\* the class names added for backwards compatibility, in the order written
BACKWARDS_COMPAT_CLASS_NAME_TO_OBJECT_NAME == <<
    <<c_AngularAxis, n_angularaxis>>,
    <<c_ColorBar, n_colorbar>>,
    <<c_Area, n_scatter>>,
    <<c_Font, n_textfont>>,
    <<c_Histogram2dContour, n_histogram2dcontour>>,
    <<c_RadialAxis, n_radialaxis>>,
    <<c_XAxis, n_xaxis>>,
    <<c_XBins, n_xbins>>,
    <<c_YAxis, n_yaxis>>,
    <<c_YBins, n_ybins>>,
    <<c_ZAxis, n_zaxis>>
>>

----------------------------------------------------------------------------
(* Dicts *)

EmptyDict == [keys |-> <<>>, val |-> <<>>]

Has(d, k) == k \in DOMAIN d.val

\* d[k] = v: a new key goes to the end, an existing key keeps its place
DictSet(d, k, v) ==
    [keys |-> IF Has(d, k) THEN d.keys ELSE Append(d.keys, k),
     val  |-> (k :> v) @@ d.val]

Last(s) == s[Len(s)]

\* name[:-1]
DropLast(s) == SubSeq(s, 1, Len(s) - 1)

SeqToSet(s) == {s[i] : i \in 1..Len(s)}

----------------------------------------------------------------------------
(* Schema documents *)

\* A schema document is a function from the paths of its nodes (the dicts
\* below the root) to what the registries read of a node: its 'role' and its
\* '_isLinkedToArray'.  The keys of a dict are in the order of CandidatePaths.
Nodes == [role : {"object", "none"}, isLinkedToArray : BOOLEAN]

\* the root dict carries no 'role'
RootNode == [role |-> "none", isLinkedToArray |-> FALSE]

\* the paths a document may have, in the order a depth-first walk meets them
CandidatePaths == <<
    <<n_layout>>,
    <<n_layout, n_shapes>>,
    <<n_layout, n_font>>,
    <<n_shapes>>,
    <<n_shape>>,
    <<n_layouts>>,
    <<n_error_y>>,
    <<n_errorY>>,
    <<n_traces>>,
    <<n_traces, n_shape>>,
    <<n_traces, n_scatter>>,
    <<n_traces, n_data>>
>>

\* the sets of paths of a document of at most n nodes: 'traces' is there and
\* every node's parent is there
NodeSets(n) ==
    {S \in SUBSET SeqToSet(CandidatePaths) :
        /\ <<n_traces>> \in S
        /\ Cardinality(S) <= n
        /\ \A p \in S : Len(p) > 1 => DropLast(p) \in S}

\* 'traces' holds the trace types and nothing else: every key of it is a
\* trace name, so it has no 'role' and no '_isLinkedToArray' of its own
TracesNode == [role |-> "none", isLinkedToArray |-> FALSE]

Schemas(n) ==
    UNION {{doc \in [S -> Nodes] : doc[<<n_traces>>] = TracesNode} :
              S \in NodeSets(n)}

\* utils.get_by_path(GRAPH_REFERENCE, path)
get_by_path(doc, path) == IF path = <<>> THEN RootNode ELSE doc[path]

\* utils.node_generator(GRAPH_REFERENCE): the paths of the (node, path)
\* pairs it yields, the root first, then every dict depth-first
node_generator(doc) ==
    <<(<<>>)>> \o SelectSeq(CandidatePaths, LAMBDA p : p \in DOMAIN doc)

\* GRAPH_REFERENCE['traces'].keys()
trace_names(doc) ==
    LET under == SelectSeq(CandidatePaths,
                     LAMBDA p : p \in DOMAIN doc /\ Len(p) = 2 /\ p[1] = n_traces)
    IN  [i \in 1..Len(under) |-> under[i][2]]

\* [path for node, path in utils.node_generator(GRAPH_REFERENCE)
\*  if node.get('role') == 'object']
object_paths(doc) ==
    SelectSeq(node_generator(doc),
              LAMBDA p : get_by_path(doc, p).role = "object")

----------------------------------------------------------------------------
(* _get_objects *)

\* a mutant of AppendPath: the path replaces the list of the name
AppendPathReplace(objects, name, path) == DictSet(objects, name, <<path>>)

\* if name not in objects: objects[name] = []
\* objects[name].append(object_path)
AppendPath(objects, name, path) ==
    LET o == IF Has(objects, name) THEN objects ELSE DictSet(objects, name, <<>>)
    IN  DictSet(o, name, Append(o.val[name], path))

\* a mutant of RegisterPath: '_isLinkedToArray' is not looked at
RegisterPathLiteralOnly(objects, doc, object_path) ==
    AppendPath(objects, Last(object_path), object_path)

\* a mutant of RegisterPath: a linked-to-array node is registered under its
\* item name only
RegisterPathItemOnly(objects, doc, object_path) ==
    IF get_by_path(doc, object_path).isLinkedToArray
    THEN AppendPath(objects, DropLast(Last(object_path)), object_path)
    ELSE AppendPath(objects, Last(object_path), object_path)

\* the body of the loop over OBJECT_PATHS
RegisterPath(objects, doc, object_path) ==
    LET name  == Last(object_path)
        value == get_by_path(doc, object_path)
        o     == IF value.isLinkedToArray
                 THEN AppendPath(objects, DropLast(name), object_path)
                 ELSE objects
    IN  AppendPath(o, name, object_path)

\* the loop over OBJECT_PATHS, from its i-th path on
RECURSIVE RegisterPaths(_, _, _, _)
RegisterPaths(objects, doc, paths, i) ==
    IF i > Len(paths) THEN objects
    ELSE RegisterPaths(RegisterPath(objects, doc, paths[i]), doc, paths, i + 1)

\* a mutant of UpdateEmpty: the list of a name that is there already is kept
UpdateEmptyKeep(objects, names) ==
    LET RECURSIVE Upd(_, _)
        Upd(o, i) == IF i > Len(names) THEN o
                     ELSE Upd(IF Has(o, names[i]) THEN o
                              ELSE DictSet(o, names[i], <<>>), i + 1)
    IN  Upd(objects, 1)

\* objects.update({name: [] for name in names})
UpdateEmpty(objects, names) ==
    LET RECURSIVE Upd(_, _)
        Upd(o, i) == IF i > Len(names) THEN o
                     ELSE Upd(DictSet(o, names[i], <<>>), i + 1)
    IN  Upd(objects, 1)

get_objects(doc, paths, traceNames) ==
    LET objects == RegisterPaths(EmptyDict, doc, paths, 1)
        traced  == UpdateEmpty(objects, traceNames)
    IN  UpdateEmpty(traced, <<n_figure, n_data, n_layout>>)

----------------------------------------------------------------------------
(* _get_class_names_to_object_names *)

\* a mutant of ClassNameEntry: a class name that is there already keeps its
\* object name
ClassNameEntryFirst(d, object_name) ==
    IF Has(d, string_to_class_name(object_name)) THEN d
    ELSE DictSet(d, string_to_class_name(object_name), object_name)

\* class_name = string_to_class_name(object_name)
\* class_names_to_object_names[class_name] = object_name
ClassNameEntry(d, object_name) ==
    DictSet(d, string_to_class_name(object_name), object_name)

\* a mutant of CompatEntry: a class name that is there already is kept
CompatEntryKeep(d, entry) ==
    IF Has(d, entry[1]) THEN d ELSE DictSet(d, entry[1], entry[2])

\* object_name = _BACKWARDS_COMPAT_CLASS_NAME_TO_OBJECT_NAME[class_name]
\* class_names_to_object_names[class_name] = object_name
CompatEntry(d, entry) == DictSet(d, entry[1], entry[2])

get_class_names_to_object_names(objects) ==
    LET RECURSIVE Names(_, _)
        Names(d, i) == IF i > Len(objects.keys) THEN d
                       ELSE Names(ClassNameEntry(d, objects.keys[i]), i + 1)
        RECURSIVE Compat(_, _)
        Compat(d, i) ==
            IF i > Len(BACKWARDS_COMPAT_CLASS_NAME_TO_OBJECT_NAME) THEN d
            ELSE Compat(CompatEntry(d, BACKWARDS_COMPAT_CLASS_NAME_TO_OBJECT_NAME[i]),
                        i + 1)
    IN  Compat(Names(EmptyDict, 1), 1)


----------------------------------------------------------------------------
(* get_graph_reference *)

GRAPH_REFERENCE_PATH == "/plot-schema.json"

\* files.FILE_CONTENT[files.CONFIG_FILE]['plotly_domain']
DefaultDomain == "https://plot.ly"

\* the values of 'plotly_domain' a configuration file may hold
ConfigDomains == {"https://plot.ly", "https://plotly.example.com"}

\* what utils.load_json_dict(files.CONFIG_FILE) may give: a dict with
\* 'plotly_domain', or {} for a file that is missing or unreadable
ConfigFiles == {("plotly_domain" :> d) : d \in ConfigDomains} \cup {<<>>}

\* {}
EmptyDoc == <<>>

\* the documents a cache file or a response body may hold
LoadSchemas == Schemas(MaxLoadNodes)

NoResponse == [exc |-> "", status_code |-> 0, valid |-> FALSE, doc |-> EmptyDoc]

\* the status codes a response may carry
StatusCodes == {200, 299, 300, 304, 399, 400, 404, 500, 599, 600}

\* what requests.get(url) does: it raises, or it returns a response with a
\* status code and a body that is a JSON document or is not
GetOutcomes ==
    {[exc |-> e, status_code |-> 0, valid |-> FALSE, doc |-> EmptyDoc] :
        e \in {"ConnectionError", "Timeout", "TooManyRedirects"}}
    \cup {[exc |-> "", status_code |-> c, valid |-> FALSE, doc |-> EmptyDoc] :
        c \in StatusCodes}
    \cup {[exc |-> "", status_code |-> c, valid |-> TRUE, doc |-> d] :
        c \in StatusCodes, d \in LoadSchemas \cup {EmptyDoc}}

\* the classes that `except requests.exceptions.RequestException` catches
RequestException == {"ConnectionError", "Timeout", "TooManyRedirects", "HTTPError"}

\* a mutant of raise_for_status: only a server error raises
raise_for_status_5xx(r) ==
    IF r.status_code >= 500 /\ r.status_code < 600 THEN "HTTPError" ELSE ""

\* response.raise_for_status(): the exception it raises, "" when none
raise_for_status(r) ==
    IF r.status_code >= 400 /\ r.status_code < 600 THEN "HTTPError" ELSE ""

\* not graph_reference
NotLoaded(doc) == DOMAIN doc = {}

\* utils.decode_unicode(graph_reference): the keys and strings of the
\* document become str, the document keeps its shape
decode_unicode(doc) == [p \in DOMAIN doc |-> doc[p]]

NoError == [type |-> "", url |-> ""]

\* lines 39-45: the cached schema and the domain; config['plotly_domain']
\* raises KeyError when the configuration has no such key
LoadLocal ==
    /\ pc = "start"
    /\ \E ok \in BOOLEAN :
        /\ permissions' = ok
        /\ IF ok
           THEN \E cached \in LoadSchemas \cup {EmptyDoc}, config \in ConfigFiles :
                    /\ cache_file' = cached
                    /\ graph_reference' = cached
                    /\ IF "plotly_domain" \in DOMAIN config
                       THEN /\ plotly_domain' = config["plotly_domain"]
                            /\ pc' = "loaded"
                            /\ UNCHANGED raised
                       ELSE /\ raised' = [type |-> "KeyError", url |-> ""]
                            /\ pc' = "raised"
                            /\ UNCHANGED plotly_domain
           ELSE /\ cache_file' = EmptyDoc
                /\ graph_reference' = EmptyDoc
                /\ plotly_domain' = DefaultDomain
                /\ pc' = "loaded"
                /\ UNCHANGED raised
    /\ UNCHANGED <<graph_reference_url, response, get_count, returned>>

\* lines 47, 67: a cached schema is returned
ReturnCached ==
    /\ pc = "loaded"
    /\ ~NotLoaded(graph_reference)
    /\ returned' = decode_unicode(graph_reference)
    /\ pc' = "returned"
    /\ UNCHANGED <<permissions, cache_file, graph_reference, plotly_domain,
                   graph_reference_url, response, get_count, raised>>

\* lines 47-52: the GET request
Get ==
    /\ pc = "loaded"
    /\ NotLoaded(graph_reference)
    /\ graph_reference_url' = plotly_domain \o GRAPH_REFERENCE_PATH
    /\ get_count' = get_count + 1
    /\ \E r \in GetOutcomes : response' = r
    /\ pc' = "requested"
    /\ UNCHANGED <<permissions, cache_file, graph_reference, plotly_domain,
                   raised, returned>>

\* the exception that leaves the try block, "" when none
Thrown(r) == IF r.exc # "" THEN r.exc ELSE raise_for_status(r)

\* lines 53-61: the request failed
RaisePlotlyError ==
    /\ pc = "requested"
    /\ Thrown(response) \in RequestException
    /\ raised' = [type |-> "PlotlyError", url |-> graph_reference_url]
    /\ pc' = "raised"
    /\ UNCHANGED <<permissions, cache_file, graph_reference, plotly_domain,
                   graph_reference_url, response, get_count, returned>>

\* lines 65-67: the body is parsed and returned
LoadResponse ==
    /\ pc = "requested"
    /\ Thrown(response) = ""
    /\ IF response.valid
       THEN /\ graph_reference' = response.doc
            /\ returned' = decode_unicode(response.doc)
            /\ pc' = "returned"
            /\ UNCHANGED raised
       ELSE /\ raised' = [type |-> "ValueError", url |-> ""]
            /\ pc' = "raised"
            /\ UNCHANGED <<graph_reference, returned>>
    /\ UNCHANGED <<permissions, cache_file, plotly_domain, graph_reference_url,
                   response, get_count>>

----------------------------------------------------------------------------
(* Specifications *)

NameIdle == /\ string = <<>> /\ class_name = <<>> /\ pcName = "idle"

LoadIdle ==
    /\ pc = "idle" /\ permissions = FALSE /\ cache_file = EmptyDoc
    /\ graph_reference = EmptyDoc /\ plotly_domain = ""
    /\ graph_reference_url = "" /\ response = NoResponse
    /\ get_count = 0 /\ raised = NoError /\ returned = EmptyDoc

ModuleIdle ==
    /\ GRAPH_REFERENCE = EmptyDoc /\ TRACE_NAMES = <<>> /\ OBJECT_PATHS = <<>>
    /\ OBJECTS = EmptyDict /\ CLASS_NAMES_TO_OBJECT_NAMES = EmptyDict
    /\ stmt = "idle"

\* --- string_to_class_name on every short string ---

Alphabet == {"a", "B", "_", "2"}

Strings(n) == UNION {[1..k -> Alphabet] : k \in 0..n}

InitName ==
    /\ string \in Strings(MaxLen) \cup {n_histogram2dcontour, n_error_y, n_xbins}
    /\ class_name = <<>>
    /\ pcName = "call"
    /\ LoadIdle /\ ModuleIdle

Call ==
    /\ pcName = "call"
    /\ class_name' = string_to_class_name(string)
    /\ pcName' = "return"
    /\ UNCHANGED <<string, loadVars, moduleVars>>

NextName == Call

SpecName == InitName /\ [][NextName]_vars

\* --- one call of get_graph_reference ---

InitLoad ==
    /\ pc = "start" /\ permissions = FALSE /\ cache_file = EmptyDoc
    /\ graph_reference = EmptyDoc /\ plotly_domain = ""
    /\ graph_reference_url = "" /\ response = NoResponse
    /\ get_count = 0 /\ raised = NoError /\ returned = EmptyDoc
    /\ NameIdle /\ ModuleIdle

NextLoad ==
    \/ LoadLocal /\ UNCHANGED <<nameVars, moduleVars>>
    \/ ReturnCached /\ UNCHANGED <<nameVars, moduleVars>>
    \/ Get /\ UNCHANGED <<nameVars, moduleVars>>
    \/ RaisePlotlyError /\ UNCHANGED <<nameVars, moduleVars>>
    \/ LoadResponse /\ UNCHANGED <<nameVars, moduleVars>>

SpecLoad == InitLoad /\ [][NextLoad]_vars

\* --- the module-level statements that follow line 144 ---

Init ==
    /\ GRAPH_REFERENCE \in Schemas(MaxNodes)
    /\ TRACE_NAMES = <<>> /\ OBJECT_PATHS = <<>>
    /\ OBJECTS = EmptyDict /\ CLASS_NAMES_TO_OBJECT_NAMES = EmptyDict
    /\ stmt = "TRACE_NAMES"
    /\ NameIdle /\ LoadIdle

\* line 145
AssignTraceNames ==
    /\ stmt = "TRACE_NAMES"
    /\ TRACE_NAMES' = trace_names(GRAPH_REFERENCE)
    /\ stmt' = "OBJECT_PATHS"
    /\ UNCHANGED <<GRAPH_REFERENCE, OBJECT_PATHS, OBJECTS,
                   CLASS_NAMES_TO_OBJECT_NAMES, nameVars, loadVars>>

\* lines 146-147
AssignObjectPaths ==
    /\ stmt = "OBJECT_PATHS"
    /\ OBJECT_PATHS' = object_paths(GRAPH_REFERENCE)
    /\ stmt' = "OBJECTS"
    /\ UNCHANGED <<GRAPH_REFERENCE, TRACE_NAMES, OBJECTS,
                   CLASS_NAMES_TO_OBJECT_NAMES, nameVars, loadVars>>

\* line 148
AssignObjects ==
    /\ stmt = "OBJECTS"
    /\ OBJECTS' = get_objects(GRAPH_REFERENCE, OBJECT_PATHS, TRACE_NAMES)
    /\ stmt' = "CLASS_NAMES_TO_OBJECT_NAMES"
    /\ UNCHANGED <<GRAPH_REFERENCE, TRACE_NAMES, OBJECT_PATHS,
                   CLASS_NAMES_TO_OBJECT_NAMES, nameVars, loadVars>>

\* line 149
AssignClassNames ==
    /\ stmt = "CLASS_NAMES_TO_OBJECT_NAMES"
    /\ CLASS_NAMES_TO_OBJECT_NAMES' = get_class_names_to_object_names(OBJECTS)
    /\ stmt' = "done"
    /\ UNCHANGED <<GRAPH_REFERENCE, TRACE_NAMES, OBJECT_PATHS, OBJECTS,
                   nameVars, loadVars>>

Next ==
    \/ AssignTraceNames
    \/ AssignObjectPaths
    \/ AssignObjects
    \/ AssignClassNames

Spec == Init /\ [][Next]_vars


----------------------------------------------------------------------------
(* Properties of the object registry *)

\* OBJECTS has been assigned
Registered == stmt \in {"CLASS_NAMES_TO_OBJECT_NAMES", "done"}

InSeq(x, s) == \E i \in 1..Len(s) : s[i] = x

\* the names that lines 118-119 add
Synthetic(name) == InSeq(name, TRACE_NAMES) \/ name \in {n_figure, n_data, n_layout}

\* the paths of the linked-to-array object nodes whose name ends in "s"
LinkedPlurals ==
    {p \in SeqToSet(OBJECT_PATHS) :
        /\ GRAPH_REFERENCE[p].isLinkedToArray
        /\ Len(Last(p)) > 0
        /\ Last(Last(p)) = "s"}

\* C1 as stated: the plural and the singular name of every linked-to-array
\* object node are keys of the registry and both lists hold the node's path,
\* whatever the trace names are.
C1_AsStated ==
    Registered =>
        \A p \in LinkedPlurals :
            \A k \in {Last(p), DropLast(Last(p))} :
                Has(OBJECTS, k) /\ InSeq(p, OBJECTS.val[k])

\* C1 (amended): the plural and the singular name of every linked-to-array
\* object node whose name ends in "s" are keys of the registry; the list of
\* each of the two holds the node's path, unless the key is a trace name or
\* figure, data or layout, and then its list is empty.
C1_LinkedPluralRegistered ==
    Registered =>
        \A p \in LinkedPlurals :
            \A k \in {Last(p), DropLast(Last(p))} :
                /\ Has(OBJECTS, k)
                /\ IF Synthetic(k) THEN OBJECTS.val[k] = <<>>
                   ELSE InSeq(p, OBJECTS.val[k])

C1_Witness ==
    /\ Registered
    /\ \E p \in LinkedPlurals :
        /\ ~Synthetic(Last(p)) /\ ~Synthetic(DropLast(Last(p)))
        /\ InSeq(p, OBJECTS.val[Last(p)])
        /\ InSeq(p, OBJECTS.val[DropLast(Last(p))])

\* {"traces": {"scatter": {}}, "layout": {"role": "object"}}
ExampleSchema ==
    (<<n_traces>> :> TracesNode)
    @@ (<<n_traces, n_scatter>> :> [role |-> "none", isLinkedToArray |-> FALSE])
    @@ (<<n_layout>> :> [role |-> "object", isLinkedToArray |-> FALSE])

\* C2 as stated: every object path is listed under its final segment, and
\* the paths of a name that is also added synthetically are merged, not lost;
\* for the example schema, scatter has no path and layout has its path.
C2_AsStated ==
    Registered =>
        /\ \A p \in SeqToSet(OBJECT_PATHS) :
            Has(OBJECTS, Last(p)) /\ InSeq(p, OBJECTS.val[Last(p)])
        /\ GRAPH_REFERENCE = ExampleSchema =>
            /\ Has(OBJECTS, n_scatter) /\ OBJECTS.val[n_scatter] = <<>>
            /\ Has(OBJECTS, n_layout) /\ OBJECTS.val[n_layout] = <<(<<n_layout>>)>>

\* C2 (amended): the final segment of every object path is a key of the
\* registry, and its list holds the path unless the name is a trace name or
\* figure, data or layout: the list of such a name is empty, the paths of the
\* traversal are replaced.  For the example schema scatter and layout both
\* have an empty list.
C2_LiteralNameRegistered ==
    Registered =>
        /\ \A p \in SeqToSet(OBJECT_PATHS) :
            /\ Has(OBJECTS, Last(p))
            /\ IF Synthetic(Last(p)) THEN OBJECTS.val[Last(p)] = <<>>
               ELSE InSeq(p, OBJECTS.val[Last(p)])
        /\ GRAPH_REFERENCE = ExampleSchema =>
            /\ Has(OBJECTS, n_scatter) /\ OBJECTS.val[n_scatter] = <<>>
            /\ Has(OBJECTS, n_layout) /\ OBJECTS.val[n_layout] = <<>>

C2_Witness ==
    /\ Registered
    /\ GRAPH_REFERENCE = ExampleSchema
    /\ OBJECT_PATHS = <<(<<n_layout>>)>>
    /\ OBJECTS.val[n_layout] = <<>>

\* C3: figure, data and layout are keys of the registry and each has an
\* empty list of paths, whatever the schema holds under these names.
C3_FixedKeysEmpty ==
    Registered =>
        \A k \in {n_figure, n_data, n_layout} :
            Has(OBJECTS, k) /\ OBJECTS.val[k] = <<>>

C3_Witness ==
    /\ Registered
    /\ \E p \in LinkedPlurals : DropLast(Last(p)) = n_layout
    /\ InSeq(n_data, TRACE_NAMES)
    /\ OBJECTS.val[n_layout] = <<>>

\* what the object paths from the i-th on add to the registry, in order:
\* for a path, the pair of its item name (when linked to an array) and then
\* the pair of its name
RECURSIVE Contributions(_)
Contributions(i) ==
    IF i > Len(OBJECT_PATHS) THEN <<>>
    ELSE LET p == OBJECT_PATHS[i]
             name == Last(p)
         IN  (IF GRAPH_REFERENCE[p].isLinkedToArray
              THEN <<[key |-> DropLast(name), path |-> p]>> ELSE <<>>)
             \o <<[key |-> name, path |-> p]>>
             \o Contributions(i + 1)

PathsOf(k) ==
    LET c == SelectSeq(Contributions(1), LAMBDA e : e.key = k)
    IN  [i \in 1..Len(c) |-> c[i].path]

\* C10: the list of a key that is neither a trace name nor figure, data or
\* layout is the object paths that produce the key, in the order of
\* OBJECT_PATHS, the item name of a path before its name; the list is not
\* empty and holds object paths only.
C10_PathListsAccumulate ==
    Registered =>
        \A k \in SeqToSet(OBJECTS.keys) :
            ~Synthetic(k) =>
                /\ OBJECTS.val[k] = PathsOf(k)
                /\ OBJECTS.val[k] # <<>>
                /\ \A i \in 1..Len(OBJECTS.val[k]) :
                       InSeq(OBJECTS.val[k][i], OBJECT_PATHS)

C10_Witness ==
    /\ Registered
    /\ \E k \in SeqToSet(OBJECTS.keys) :
        /\ ~Synthetic(k)
        /\ Len(OBJECTS.val[k]) >= 2
        /\ OBJECTS.val[k][1] # OBJECTS.val[k][2]

----------------------------------------------------------------------------
(* Properties of the class-name registry *)

Compat == BACKWARDS_COMPAT_CLASS_NAME_TO_OBJECT_NAME

CompatKeys == {Compat[i][1] : i \in 1..Len(Compat)}

\* C6: every class name of the backwards-compatibility table is a key of the
\* class-name registry and maps to the object name the table gives.
C6_CompatWins ==
    stmt = "done" =>
        \A i \in 1..Len(Compat) :
            /\ Has(CLASS_NAMES_TO_OBJECT_NAMES, Compat[i][1])
            /\ CLASS_NAMES_TO_OBJECT_NAMES.val[Compat[i][1]] = Compat[i][2]

C6_Witness ==
    /\ stmt = "done"
    /\ Has(OBJECTS, n_font)
    /\ string_to_class_name(n_font) = c_Font
    /\ CLASS_NAMES_TO_OBJECT_NAMES.val[c_Font] = n_textfont

\* C8 as stated: the class name of every key n of the object registry maps
\* to n, unless the class name is a key of the backwards-compatibility table.
C8_AsStated ==
    stmt = "done" =>
        \A n \in SeqToSet(OBJECTS.keys) :
            LET c == string_to_class_name(n)
            IN  /\ Has(CLASS_NAMES_TO_OBJECT_NAMES, c)
                /\ c \notin CompatKeys => CLASS_NAMES_TO_OBJECT_NAMES.val[c] = n

\* the last key of the object registry, in its order, with class name c
LastWithClassName(c) ==
    LET at == {i \in 1..Len(OBJECTS.keys) : string_to_class_name(OBJECTS.keys[i]) = c}
    IN  OBJECTS.keys[CHOOSE i \in at : \A j \in at : j <= i]

\* C8 (amended): the class name of every key n of the object registry is a
\* key of the class-name registry; unless it is a key of the
\* backwards-compatibility table it maps to the last key of the object
\* registry that has this class name, which is n when no other key has it.
C8_ObjectNamesRecorded ==
    stmt = "done" =>
        \A n \in SeqToSet(OBJECTS.keys) :
            LET c == string_to_class_name(n)
            IN  /\ Has(CLASS_NAMES_TO_OBJECT_NAMES, c)
                /\ c \notin CompatKeys =>
                    /\ CLASS_NAMES_TO_OBJECT_NAMES.val[c] = LastWithClassName(c)
                    /\ (\A m \in SeqToSet(OBJECTS.keys) :
                            string_to_class_name(m) = c => m = n)
                       => CLASS_NAMES_TO_OBJECT_NAMES.val[c] = n

C8_Witness ==
    /\ stmt = "done"
    /\ Has(OBJECTS, n_error_y) /\ Has(OBJECTS, n_errorY)
    /\ CLASS_NAMES_TO_OBJECT_NAMES.val[c_ErrorY] = n_errorY

----------------------------------------------------------------------------
(* Properties of string_to_class_name *)

\* C4 as stated: "histogram2dcontour" becomes "Histogram2Dcontour".
C4_AsStated ==
    (pcName = "return" /\ string = n_histogram2dcontour)
        => class_name = c_Histogram2Dcontour

\* C4 (amended): "histogram2dcontour" becomes "Histogram2dcontour": only the
\* first character is upper-cased, the letter after the digit is not.
C4_Histogram2dcontour ==
    (pcName = "return" /\ string = n_histogram2dcontour)
        => class_name = c_Histogram2dcontour

C4_Witness ==
    /\ pcName = "return"
    /\ string = n_histogram2dcontour
    /\ class_name[1] = "H" /\ class_name[11] = "d"

\* index i of s is the underscore of a match of _[A-Za-z]+
StartsRun(s, i) == s[i] = "_" /\ i < Len(s) /\ IsAlpha(s[i+1])

\* index i of s is a letter of an underscore-prefixed run of letters
InRun(s, i) ==
    /\ IsAlpha(s[i])
    /\ \E j \in 1..(i-1) : s[j] = "_" /\ \A k \in (j+1)..i : IsAlpha(s[k])

\* the character that index i of s becomes
Becomes(s, i) ==
    IF InRun(s, i)
    THEN IF s[i-1] = "_" THEN ToUpper(s[i]) ELSE ToLower(s[i])
    ELSE IF IsAlpha(s[i]) /\ \A j \in 1..(i-1) : ~IsAlpha(s[j])
         THEN ToUpper(s[i])
         ELSE s[i]

\* the class name, character by character: the underscore of every run is
\* dropped, a run is capitalized, the first letter of the string is
\* upper-cased, and every other character stays
RECURSIVE ByPosition(_, _)
ByPosition(s, i) ==
    IF i > Len(s) THEN <<>>
    ELSE (IF StartsRun(s, i) THEN <<>> ELSE <<Becomes(s, i)>>)
         \o ByPosition(s, i + 1)

\* C5: the class name of a string is the string with its first letter
\* upper-cased and every underscore-prefixed run of letters replaced by the
\* capitalized run without the underscore; nothing else changes.
C5_ClassNameByPosition ==
    pcName = "return" =>
        /\ class_name = ByPosition(string, 1)
        /\ string = n_error_y => class_name = c_ErrorY
        /\ string = n_xbins => class_name = c_Xbins

C5_Witness ==
    /\ pcName = "return"
    /\ string = <<"a", "_", "a", "B">>
    /\ class_name = <<"A", "A", "b">>

----------------------------------------------------------------------------
(* Properties of get_graph_reference *)

Ended == pc \in {"raised", "returned"}

\* the GET raised a network error or returned a non-success status
GetFailed ==
    /\ get_count > 0
    /\ \/ response.exc # ""
       \/ response.status_code \notin 200..299

\* C7 as stated: when there is no cached schema and the GET fails, by a
\* network error or by a non-success status, the call ends with the
\* PlotlyError that names the URL and nothing is returned.
C7_AsStated ==
    (Ended /\ GetFailed) =>
        /\ pc = "raised"
        /\ raised = [type |-> "PlotlyError",
                     url |-> plotly_domain \o "/plot-schema.json"]
        /\ returned = EmptyDoc

\* the GET raised a network error or returned a 4xx or 5xx status
GetRaised ==
    /\ get_count > 0
    /\ \/ response.exc # ""
       \/ response.status_code \in 400..599

\* C7 (amended): when there is no cached schema and the GET raises a network
\* error or returns a 4xx or 5xx status, the call ends with the PlotlyError
\* that names the URL, the domain followed by /plot-schema.json; no other
\* exception leaves the call and nothing is returned.  A response with any
\* other status is parsed like a successful one and never ends in the
\* PlotlyError.
C7_FailedGetRaisesPlotlyError ==
    /\ (Ended /\ GetRaised) =>
        /\ pc = "raised"
        /\ raised = [type |-> "PlotlyError",
                     url |-> plotly_domain \o "/plot-schema.json"]
        /\ returned = EmptyDoc
    /\ (pc = "requested" /\ GetRaised) =>
        /\ ENABLED RaisePlotlyError
        /\ ~ENABLED LoadResponse
    /\ (Ended /\ get_count > 0 /\ ~GetRaised) =>
        /\ raised.type # "PlotlyError"
        /\ response.valid <=> (pc = "returned" /\ returned = response.doc)

C7_Witness ==
    /\ pc = "raised"
    /\ response.status_code = 404
    /\ raised.type = "PlotlyError"
    /\ raised.url = "https://plotly.example.com/plot-schema.json"

\* a non-empty cached schema was loaded
CacheLoaded == permissions /\ cache_file # EmptyDoc

\* C9: a call issues at most one GET, and issues it exactly when no
\* non-empty cached schema was loaded; with a cached schema there is no GET
\* and no PlotlyError; a failed GET is not repeated.
C9_AsStated ==
    /\ get_count <= 1
    /\ pc \in {"requested", "raised", "returned"} =>
        /\ get_count = 1 <=> ~CacheLoaded
        /\ CacheLoaded => raised.type # "PlotlyError"
    /\ (pc = "raised" /\ raised.type = "PlotlyError") =>
        /\ get_count = 1
        /\ ~ENABLED NextLoad

====
